---- MODULE Spec2Model ----
(***************************************************************************)
(* Product data collection app (src/app.py): a Streamlit script backed by  *)
(* a Supabase table `products` and a storage bucket `product-images`.      *)
(* Every user event reruns the script top to bottom; one action of this    *)
(* model is one such rerun, with every remote call it makes.               *)
(*                                                                         *)
(* Python values: None is the empty tuple and a present value x is <<x>>   *)
(* (Some(x)); a dict is a record, the empty dict the record with no field; *)
(* a file name is the sequence of its dot-separated parts.                 *)
(***************************************************************************)
EXTENDS Integers, Sequences, FiniteSets, TLC

VARIABLES
    config,         \* the two connection parameters, and what create_client does
    form,           \* widget values of the Add New Product page
    products,       \* rows of the remote table `products`, in insertion order
    bucket,         \* objects of the storage bucket `product-images`
    uuid_n,         \* number of uuid4() values drawn so far
    next_id,        \* number of rows the server has assigned an id to
    session_state,  \* st.session_state: the keys set to True
    log,            \* remote calls issued by the last rerun, in order
    product_data,   \* record the last Save click assembled (None if none)
    saves,          \* Save clicks so far
    faults,         \* calls of Save and Delete reruns the environment failed so far
    ui,             \* the last rerun: the event, what it showed, the rows it listed
    call,           \* input of a direct upload_image_to_supabase call
    ret             \* what the upload_image_to_supabase calls of the last Save
                    \* click, or the direct call, returned, in order

vars == <<config, form, products, bucket, uuid_n, next_id, session_state,
          log, product_data, saves, faults, ui, call, ret>>

----------------------------------------------------------------------------
\* Python's None / a present value.
None == <<>>
Some(x) == <<x>>
IsNone(o) == Len(o) = 0
IsSome(o) == Len(o) = 1
Val(o) == o[1]

\* The empty dict {}.
EmptyDict == [x \in {} |-> TRUE]

----------------------------------------------------------------------------
\* Bounds of the model.
MaxSaves == 1
MaxFaults == 1

----------------------------------------------------------------------------
\* Image handling (src/app.py 52-146).

MiB == 1024 * 1024
MAX_IMAGE_BYTES == 5 * MiB
allowed_types == {"image/png", "image/jpeg", "image/jpg", "image/webp"}

\* An uploaded file: name (dot-separated parts), size in bytes, declared MIME
\* type, content, and the read position ("start", or "moved" once read from).
File(name, size, type, data) ==
    [name |-> name, size |-> size, type |-> type,
     bytes |-> [encoding |-> "original", data |-> data], pos |-> "start"]

\* file.read(): the bytes from the read position on, all of them or the rest.
read(file) ==
    [encoding |-> file.bytes.encoding, data |-> file.bytes.data,
     part |-> IF file.pos = "start" THEN "all" ELSE "rest"]

validate_image_Inclusive(file) ==
    /\ ~(file.size >= MAX_IMAGE_BYTES)
    /\ file.type \in allowed_types

\* validate_image(file) for a file that is not None.
validate_image(file) ==
    /\ ~(file.size > MAX_IMAGE_BYTES)
    /\ file.type \in allowed_types

\* file.name.rsplit('.', 1)[0] + '.jpg'
jpg_name(name) ==
    IF Len(name) = 1 THEN name \o <<"jpg">>
    ELSE SubSeq(name, 1, Len(name) - 1) \o <<"jpg">>

compress_image_Never(file, pil) == file

\* compress_image(file): pil is what the PIL calls do, "ok" or "raise". A
\* raise leaves the original file, read somewhere past its start.
compress_image(file, pil) ==
    IF file.size <= 1 * MiB THEN file
    ELSE IF pil = "ok"
         THEN [name |-> jpg_name(file.name), type |-> "image/jpeg",
               bytes |-> [encoding |-> "JPEG85", data |-> file.bytes.data], pos |-> "start"]
         ELSE [file EXCEPT !.pos = "moved"]

\* What the environment does to one upload_image_to_supabase call:
\* pil: the PIL re-encoding; storage: "ok", "upload_raise" (upload() raises
\* and nothing is stored), "url_raise" (upload() stores the object and
\* get_public_url() raises).
Envs == [pil : {"ok", "raise"}, storage : {"ok", "upload_raise", "url_raise"}]

\* file.name.split('.')[-1]
file_ext(name) == name[Len(name)]

unique_name(folder, n, file) ==
    [folder |-> folder, uuid |-> n, ext |-> file_ext(file.name)]

public_url(path) == <<"public", "product-images", path>>

UploadOp(path, bytes, type) ==
    [op |-> "storage.upload", path |-> path, bytes |-> bytes,
     content_type |-> type]
UrlOp(path) == [op |-> "storage.get_public_url", path |-> path]

\* upload_image_to_supabase(file, folder) for a file that is not None, in a
\* bucket b with n uuids drawn: the descriptor returned (None on failure),
\* the bucket and uuid count after it, the remote calls issued, and whether
\* compress_image reached its PIL calls.
upload_image_to_supabase(file, folder, env, b, n) ==
    IF ~validate_image(file)
    THEN [ret |-> None, bucket |-> b, uuid_n |-> n, ops |-> <<>>,
          pil_called |-> FALSE]
    ELSE LET f == compress_image(file, env.pil)
             path == unique_name(folder, n + 1, f)
             obj == [path |-> path, bytes |-> read(f), content_type |-> f.type]
             up == UploadOp(path, read(f), f.type)
             pil_called == file.size > 1 * MiB
         IN  CASE env.storage = "upload_raise" ->
                    [ret |-> None, bucket |-> b, uuid_n |-> n + 1,
                     ops |-> <<up>>, pil_called |-> pil_called]
               [] env.storage = "url_raise" ->
                    [ret |-> None, bucket |-> b \cup {obj}, uuid_n |-> n + 1,
                     ops |-> <<up, UrlOp(path)>>, pil_called |-> pil_called]
               [] OTHER ->
                    [ret |-> Some([filename |-> f.name, path |-> path,
                                   url |-> public_url(path)]),
                     bucket |-> b \cup {obj}, uuid_n |-> n + 1,
                     ops |-> <<up, UrlOp(path)>>, pil_called |-> pil_called]

----------------------------------------------------------------------------
\* The Add New Product form (src/app.py 446-595).

T_BAT == "Cricket Bat (Deep Customization)"
T_SIMPLE == "Simple Product"
T_VARIABLE == "Variable Product"
ProductTypes == {T_BAT, T_SIMPLE, T_VARIABLE}

\* variations_data: the variation widgets exist only for a Variable Product.
variations_data(f) ==
    IF f.product_type = T_VARIABLE THEN f.variations ELSE <<>>

\* handle_shapes: one {'label': shape} per non-empty shape input.
RECURSIVE handle_shapes(_)
handle_shapes(shapes) ==
    IF shapes = <<>> THEN <<>>
    ELSE (IF Head(shapes) # "" THEN <<[label |-> Head(shapes)]>> ELSE <<>>)
         \o handle_shapes(Tail(shapes))

\* deep_custom_data as the form builds it; the images are still files.
deep_custom_data(f) ==
    IF f.product_type = T_BAT /\ f.enable_deep_custom
    THEN [enabled |-> TRUE,
          edition |-> [heading |-> f.edition_heading,
                       subtitle |-> f.edition_subtitle,
                       short_description |-> f.short_edition_desc,
                       grains |-> f.grains,
                       grade |-> f.grade,
                       grain_description |-> f.grain_description,
                       image |-> f.edition_image],
          handle_shapes |-> handle_shapes(f.shapes),
          laser_engraving |->
              [enabled |-> f.enable_laser,
               price |-> IF f.enable_laser THEN f.laser_price ELSE 0,
               max_chars |-> IF f.enable_laser THEN f.laser_max_chars ELSE 0,
               image |-> IF f.enable_laser THEN f.laser_image ELSE None]]
    ELSE EmptyDict

----------------------------------------------------------------------------
\* The Save to Database handler (src/app.py 603-724).

\* A handler's progress through its remote calls: bucket, uuids drawn, calls
\* issued so far, and what each upload_image_to_supabase call so far returned.
Progress(b, n, ops, returns) ==
    [bucket |-> b, uuid_n |-> n, ops |-> ops, returns |-> returns]

Returned(file, folder, r) ==
    [file |-> file, folder |-> folder, value |-> r.ret, pil_called |-> r.pil_called]

\* Progress after one more upload call, of file to folder, returned r.
advance(st, file, folder, r) ==
    [st |-> Progress(r.bucket, r.uuid_n, st.ops \o r.ops,
                     Append(st.returns, Returned(file, folder, r))),
     ret |-> r.ret]

\* `upload_image_to_supabase(img, folder) if img else None`; plan[k] is what
\* the environment does to the k-th call of the rerun.  A plan shorter than
\* the calls of the Save is a script that Streamlit stopped after the call
\* numbered Len(plan): the lines after the stop are not run, no further call
\* is made.
upload_if(st, img, folder, plan) ==
    IF IsNone(img) \/ Len(st.returns) >= Len(plan) THEN [st |-> st, ret |-> None]
    ELSE advance(st, Val(img), folder,
                 upload_image_to_supabase(Val(img), folder,
                                          plan[Len(st.returns) + 1],
                                          st.bucket, st.uuid_n))

gallery_append_Prepend(gallery_data, img_data) ==
    IF IsSome(img_data) THEN <<Val(img_data)>> \o gallery_data ELSE gallery_data

\* Lines 626-627: `if img_data: gallery_data.append(img_data)`.
gallery_append(gallery_data, img_data) ==
    IF IsSome(img_data) THEN Append(gallery_data, Val(img_data)) ELSE gallery_data

\* Lines 622-627: the gallery loop.
RECURSIVE upload_gallery(_, _, _, _)
gallery_next(r, imgs, plan, gallery_data) ==
    upload_gallery(r.st, imgs, plan, gallery_append(gallery_data, r.ret))

upload_gallery(st, imgs, plan, gallery_data) ==
    IF imgs = <<>> THEN [st |-> st, ret |-> gallery_data]
    ELSE gallery_next(upload_if(st, Some(Head(imgs)), "products/gallery", plan),
                      Tail(imgs), plan, gallery_data)

\* Lines 636-638: each variation's image is replaced by what its upload returns.
RECURSIVE upload_variations(_, _, _, _)
variations_next(r, vs, plan, done) ==
    upload_variations(r.st, Tail(vs), plan,
                      Append(done, [Head(vs) EXCEPT !.image = r.ret]))

upload_variations(st, vs, plan, done) ==
    IF vs = <<>> THEN [st |-> st, ret |-> done]
    ELSE variations_next(upload_if(st, Head(vs).image, "products/variations", plan),
                         vs, plan, done)

\* Lines 649-653: the laser image, after the edition image returned e.
upload_laser(e, d, plan) ==
    [e |-> e.ret,
     l |-> upload_if(e.st, d.laser_engraving.image, "products/laser", plan)]

with_images(d, el) ==
    [st |-> el.l.st,
     ret |-> [d EXCEPT !.edition.image = el.e,
                       !.laser_engraving.image = el.l.ret]]

\* Lines 643-653: the edition image, then the laser image, of deep_custom_data d.
upload_customization(st, f, d, plan) ==
    IF f.product_type = T_BAT /\ f.enable_deep_custom
    THEN with_images(d, upload_laser(
             upload_if(st, d.edition.image, "products/edition", plan), d, plan))
    ELSE [st |-> st, ret |-> d]

\* Number of upload_image_to_supabase calls a Save of form f makes.
RECURSIVE count_images(_)
count_images(vs) ==
    IF vs = <<>> THEN 0
    ELSE (IF IsSome(Head(vs).image) THEN 1 ELSE 0) + count_images(Tail(vs))

num_upload_calls(f) ==
    LET d == deep_custom_data(f)
    IN  Len(f.main_image) + Len(f.gallery_images)
        + count_images(variations_data(f))
        + (IF f.product_type = T_BAT /\ f.enable_deep_custom
           THEN Len(d.edition.image) + Len(d.laser_engraving.image) ELSE 0)

\* The upload_image_to_supabase calls of a Save of form f, in the order of
\* lines 617-653: the file and the folder of each.
upload_calls(f) ==
    LET call_of(img, folder) ==
            IF IsNone(img) THEN <<>>
            ELSE <<[file |-> Val(img), folder |-> folder]>>
        accepted == SelectSeq(variations_data(f), LAMBDA v : IsSome(v.image))
        d == deep_custom_data(f)
    IN  call_of(f.main_image, "products/main")
        \o [k \in 1..Len(f.gallery_images) |->
               [file |-> f.gallery_images[k], folder |-> "products/gallery"]]
        \o (IF f.product_type = T_VARIABLE
            THEN [k \in 1..Len(accepted) |->
                    [file |-> Val(accepted[k].image),
                     folder |-> "products/variations"]]
            ELSE <<>>)
        \o (IF f.product_type = T_BAT /\ f.enable_deep_custom
            THEN call_of(d.edition.image, "products/edition")
                 \o call_of(d.laser_engraving.image, "products/laser")
            ELSE <<>>)

\* Streamlit stops a running script, when a widget event of the session
\* arrives, at the next call the script makes on Streamlit; the exception it
\* raises there is no Exception, so line 715 does not catch it.  Whether the
\* script calls Streamlit after upload call k (of calls c) has returned and
\* before the remote calls of call k + 1: the progress and status calls
\* between and after the stages (615-616, 620-621, 628, 633-634, 641-642,
\* 656), st.warning for a rejected file k + 1 (59, 65), st.info after the
\* compression of file k + 1 (91).  The variation loop (636-638) and the
\* edition and laser uploads (644-653) call Streamlit only from inside
\* upload_image_to_supabase.
st_call_between(c, k) ==
    \/ k = 0
    \/ k = Len(c)
    \/ /\ 0 < k /\ k < Len(c)
       /\ \/ c[k].folder = "products/gallery"
          \/ c[k].folder # c[k + 1].folder /\ c[k].folder # "products/edition"
          \/ ~validate_image(c[k + 1].file)
          \/ c[k + 1].file.size > 1 * MiB

nonzero_or_none_KeepZero(x) == Some(x)

\* `x if x else None` for a number.
nonzero_or_none(x) == IF x # 0 THEN Some(x) ELSE None

variations_field_Always(f, vs) == Some(vs)

\* Line 671.
variations_field(f, vs) ==
    IF f.product_type = T_VARIABLE THEN Some(vs) ELSE None

deep_customization_field_Never(f, d) == None

\* Line 672.
deep_customization_field(f, d) ==
    IF f.product_type = T_BAT THEN Some(d) ELSE None

\* Lines 657-677: the record handed to the insert.
compile_product_data(f, main_image_data, gallery_data, vs, d, now) ==
    [product_name |-> f.product_name,
     product_type |-> f.product_type,
     sku |-> f.sku,
     regular_price |-> f.regular_price,
     sale_price |-> nonzero_or_none(f.sale_price),
     stock_status |-> f.stock_status,
     stock_quantity |-> f.stock_quantity,
     weight |-> nonzero_or_none(f.weight),
     category |-> f.category,
     short_description |-> f.short_description,
     full_description |-> f.full_description,
     main_image |-> main_image_data,
     gallery_images |-> gallery_data,
     variations |-> variations_field(f, vs),
     deep_customization |-> deep_customization_field(f, d),
     product_data |-> [timestamp |-> now,
                       complete_data |-> "Full product structure here"]]

----------------------------------------------------------------------------
\* Startup (src/app.py 33-50), run again by every rerun.

init_supabase_NoCheck(cfg) ==
    [stopped |-> FALSE, SUPABASE_CONNECTED |-> cfg.create_client = "ok"]

\* init_supabase and the try around it: a missing parameter ends the script
\* at st.stop(); create_client raising leaves SUPABASE_CONNECTED False.
init_supabase(cfg) ==
    IF cfg.url = "" \/ cfg.key = ""
    THEN [stopped |-> TRUE, SUPABASE_CONNECTED |-> FALSE]
    ELSE [stopped |-> FALSE, SUPABASE_CONNECTED |-> cfg.create_client = "ok"]

----------------------------------------------------------------------------
\* The table `products` (src/app.py 148-198).

SelectOp == [op |-> "table.select"]
CountOp == [op |-> "table.select_count"]
InsertOp(rec) == [op |-> "table.insert", record |-> rec]
DeleteOp(id) == [op |-> "table.delete", id |-> id]
SearchOp(q) == [op |-> "table.select_ilike", query |-> q]

\* The row the server stores for an inserted record: it assigns the id and
\* the creation time.
server_row(rec, nid) == rec @@ [id |-> nid + 1, created_at |-> nid + 1]

save_product_to_supabase_NotStored(rec, ins, rows, nid) ==
    IF ins = "ok"
    THEN [ret |-> Some(server_row(rec, nid)), rows |-> rows, next_id |-> nid + 1]
    ELSE [ret |-> None, rows |-> rows, next_id |-> nid]

\* save_product_to_supabase: ins is what the insert does, "ok" or "raise".
save_product_to_supabase(rec, ins, rows, nid) ==
    IF ins = "ok"
    THEN [ret |-> Some(server_row(rec, nid)),
          rows |-> Append(rows, server_row(rec, nid)), next_id |-> nid + 1]
    ELSE [ret |-> None, rows |-> rows, next_id |-> nid]

order_desc_Unordered(rows) == rows

\* .order('created_at', desc=True)
RECURSIVE order_desc(_)
order_desc(rows) ==
    IF rows = <<>> THEN <<>>
    ELSE LET i == CHOOSE i \in 1..Len(rows) :
                     \A j \in 1..Len(rows) :
                         \/ rows[j].created_at < rows[i].created_at
                         \/ rows[j].created_at = rows[i].created_at /\ i <= j
         IN  <<rows[i]>> \o order_desc(SubSeq(rows, 1, i - 1)
                                       \o SubSeq(rows, i + 1, Len(rows)))

\* get_all_products_from_supabase: sel is what the select does.
get_all_products_from_supabase(rows, sel) ==
    IF sel = "ok" THEN order_desc(rows) ELSE <<>>

RECURSIVE without_id(_, _)
without_id(rows, id) ==
    IF rows = <<>> THEN <<>>
    ELSE (IF Head(rows).id = id THEN <<>> ELSE <<Head(rows)>>)
         \o without_id(Tail(rows), id)

delete_product_from_supabase_MatchedOnly(id, del, rows) ==
    IF del = "ok"
    THEN [ret |-> \E i \in 1..Len(rows) : rows[i].id = id,
          rows |-> without_id(rows, id)]
    ELSE [ret |-> FALSE, rows |-> rows]

\* delete_product_from_supabase: del is what the delete does. A delete that
\* matches no row is no error of the store.
delete_product_from_supabase(id, del, rows) ==
    IF del = "ok" THEN [ret |-> TRUE, rows |-> without_id(rows, id)]
    ELSE [ret |-> FALSE, rows |-> rows]

\* Text is a sequence of characters; ILIKE compares without case.
UpperCase == <<"A", "B", "C", "R", "S", "T", "X", "Z">>
LowerCase == <<"a", "b", "c", "r", "s", "t", "x", "z">>
lower(c) ==
    IF \E i \in 1..Len(UpperCase) : UpperCase[i] = c
    THEN LowerCase[CHOOSE i \in 1..Len(UpperCase) : UpperCase[i] = c]
    ELSE c

\* text ILIKE pattern: in the pattern % (written * as well in a filter of
\* the REST interface) stands for any run of characters and _ for any one
\* character; every other character matches itself without case.
RECURSIVE like_match(_, _)
like_match(t, p) ==
    IF p = <<>> THEN t = <<>>
    ELSE IF Head(p) \in {"%", "*"}
    THEN like_match(t, Tail(p)) \/ (t # <<>> /\ like_match(Tail(t), p))
    ELSE /\ t # <<>>
         /\ Head(p) = "_" \/ lower(Head(p)) = lower(Head(t))
         /\ like_match(Tail(t), Tail(p))

\* Lines 189-191: column.ilike.%{query}% with the query pasted in as typed.
ilike_contains(t, q) == like_match(t, <<"%">> \o q \o <<"%">>)

RECURSIVE matching(_, _)
matching(rows, q) ==
    IF rows = <<>> THEN <<>>
    ELSE (IF \/ ilike_contains(Head(rows).product_name, q)
             \/ ilike_contains(Head(rows).sku, q)
          THEN <<Head(rows)>> ELSE <<>>)
         \o matching(Tail(rows), q)

\* search_products: sel is what the select does.
search_products(q, rows, sel) ==
    IF sel = "ok" THEN matching(rows, q) ELSE <<>>

\* Lines 314-321: the sidebar's product count, on every rerun.
sidebar(s) == IF s.SUPABASE_CONNECTED THEN <<SelectOp>> ELSE <<>>

----------------------------------------------------------------------------
\* One rerun of the script for each user event.

Event(kind, id, q) == [kind |-> kind, id |-> id, query |-> q]
Shown(event, shown, rows) == [event |-> event, shown |-> shown, rows |-> rows]

\* Number of faults in a plan.
RECURSIVE Faults(_)
Faults(plan) ==
    IF plan = <<>> THEN 0
    ELSE (IF Head(plan).pil # "ok" THEN 1 ELSE 0)
         + (IF Head(plan).storage # "ok" THEN 1 ELSE 0)
         + Faults(Tail(plan))

\* What the environment may do to the n upload calls of one Save, with at
\* most `budget` faults.
Plans(n, budget) == {p \in [1..n -> Envs] : Faults(p) <= budget}

\* What one remote call may do when `budget` more faults are allowed.
Outcomes(budget) == IF budget > 0 THEN {"ok", "raise"} ELSE {"ok"}
RaiseCount(outcome) == IF outcome = "raise" THEN 1 ELSE 0

required_fields_missing_NameOnly(f) == Len(f.product_name) = 0

\* Line 604: `not product_name or regular_price == 0`.
required_fields_missing(f) ==
    Len(f.product_name) = 0 \/ f.regular_price = 0

\* The uploads of one Save, each stage taking what the stages before it
\* left: u.st the progress, u.main / u.gallery / u.variations / u.custom the
\* values the record is compiled from.
with_main(r) ==
    [st |-> r.st, main |-> r.ret]
with_gallery(u, r) ==
    [st |-> r.st, main |-> u.main, gallery |-> r.ret]
with_variations(u, r) ==
    [st |-> r.st, main |-> u.main, gallery |-> u.gallery, variations |-> r.ret]
with_custom(u, r) ==
    [st |-> r.st, main |-> u.main, gallery |-> u.gallery,
     variations |-> u.variations, custom |-> r.ret]

\* Lines 617, 622-630.
stage_gallery(u, f, plan) ==
    with_gallery(u, upload_gallery(u.st, f.gallery_images, plan, <<>>))
\* Lines 635-638.
stage_variations(u, f, plan) ==
    with_variations(u, IF f.product_type = T_VARIABLE
                       THEN upload_variations(u.st, variations_data(f), plan, <<>>)
                       ELSE [st |-> u.st, ret |-> variations_data(f)])
\* Lines 643-653.
stage_custom(u, f, plan) ==
    with_custom(u, upload_customization(u.st, f, deep_custom_data(f), plan))

\* Lines 613-653: main image, gallery, variation images, edition and laser.
upload_all(f, plan, b, n) ==
    stage_custom(
        stage_variations(
            stage_gallery(
                with_main(upload_if(Progress(b, n, <<>>, <<>>), f.main_image,
                                    "products/main", plan)),
                f, plan),
            f, plan),
        f, plan)

saved_outcome_Rollback(u, rec, saved) ==
    [ops |-> u.st.ops \o <<InsertOp(rec)>>,
     bucket |-> IF IsSome(saved.ret) THEN u.st.bucket
                ELSE {o \in u.st.bucket :
                         \A k \in 1..Len(u.st.ops) :
                             u.st.ops[k].op = "storage.upload"
                                 => u.st.ops[k].path # o.path},
     uuid_n |-> u.st.uuid_n,
     rows |-> saved.rows, next_id |-> saved.next_id,
     product_data |-> Some(rec), returns |-> u.st.returns,
     shown |-> IF IsSome(saved.ret) THEN "saved" ELSE "failed to save"]

saved_outcome_InsertFirst(u, rec, saved) ==
    [ops |-> <<InsertOp(rec)>> \o u.st.ops,
     bucket |-> u.st.bucket, uuid_n |-> u.st.uuid_n,
     rows |-> saved.rows, next_id |-> saved.next_id,
     product_data |-> Some(rec), returns |-> u.st.returns,
     shown |-> IF IsSome(saved.ret) THEN "saved" ELSE "failed to save"]

\* Lines 680-713: the insert of the compiled record, and what the page shows.
saved_outcome(u, rec, saved) ==
    [ops |-> u.st.ops \o <<InsertOp(rec)>>,
     bucket |-> u.st.bucket, uuid_n |-> u.st.uuid_n,
     rows |-> saved.rows, next_id |-> saved.next_id,
     product_data |-> Some(rec), returns |-> u.st.returns,
     shown |-> IF IsSome(saved.ret) THEN "saved" ELSE "failed to save"]

insert_record_MainImageRequired(u, rec, ins, rows, nid) ==
    IF IsNone(rec.main_image)
    THEN [ops |-> u.st.ops, bucket |-> u.st.bucket, uuid_n |-> u.st.uuid_n,
          rows |-> rows, next_id |-> nid, product_data |-> Some(rec),
          returns |-> u.st.returns, shown |-> "failed to save"]
    ELSE saved_outcome(u, rec, save_product_to_supabase(rec, ins, rows, nid))

insert_record(u, rec, ins, rows, nid) ==
    saved_outcome(u, rec, save_product_to_supabase(rec, ins, rows, nid))

\* Where the run of a click ends.  "none" is a run to the end of the
\* script; the others are runs Streamlit stopped at a call the script made
\* on it: "start" before the sidebar's select of line 316 (lines 22-311),
\* "sidebar" after that select and before the page's own remote calls,
\* "message" at the call that draws the message of the click's handler.
StopPoints == {"none", "start", "sidebar", "message"}

\* Lines 655-713.  A run stopped during the uploads ("uploading", after an
\* upload call returned; "failing", at st.error of line 145 inside the last
\* call made, which has not returned) leaves the objects written so far,
\* builds no record, issues no insert and draws no message; one stopped at
\* lines 680-681 ("compiled") has built the record; one stopped at lines
\* 158, 684-688 or 713 ("inserted") has issued the insert and draws no
\* message.
compile_and_insert(u, f, ins, stop, rows, nid, now) ==
    CASE stop = "uploading" ->
             [ops |-> u.st.ops, bucket |-> u.st.bucket, uuid_n |-> u.st.uuid_n,
              rows |-> rows, next_id |-> nid, product_data |-> None,
              returns |-> u.st.returns, shown |-> ""]
      [] stop = "failing" ->
             [ops |-> u.st.ops, bucket |-> u.st.bucket, uuid_n |-> u.st.uuid_n,
              rows |-> rows, next_id |-> nid, product_data |-> None,
              returns |-> SubSeq(u.st.returns, 1, Len(u.st.returns) - 1),
              shown |-> ""]
      [] stop = "compiled" ->
             [ops |-> u.st.ops, bucket |-> u.st.bucket, uuid_n |-> u.st.uuid_n,
              rows |-> rows, next_id |-> nid,
              product_data |-> Some(compile_product_data(
                                        f, u.main, u.gallery, u.variations,
                                        u.custom, now)),
              returns |-> u.st.returns, shown |-> ""]
      [] stop = "inserted" ->
             [insert_record(u, compile_product_data(f, u.main, u.gallery,
                                                    u.variations, u.custom, now),
                            ins, rows, nid) EXCEPT !.shown = ""]
      [] OTHER ->
             insert_record(u, compile_product_data(f, u.main, u.gallery,
                                                   u.variations, u.custom, now),
                           ins, rows, nid)

\* Lines 613-713: the uploads in order, the record, the insert, as far as
\* the run gets.
save_to_database(f, plan, ins, stop, rows, b, n, nid, now) ==
    compile_and_insert(upload_all(f, plan, b, n), f, ins, stop, rows, nid, now)

with_sidebar(s, r) == [r EXCEPT !.ops = sidebar(s) \o r.ops]

\* Lines 33-50, 604-607: the runs of a Save click that issue no upload.
save_blocked(cfg, f) ==
    \/ init_supabase(cfg).stopped
    \/ required_fields_missing(f)
    \/ ~init_supabase(cfg).SUPABASE_CONNECTED

\* The rerun a click on Save to Database starts.
save_rerun(cfg, f, plan, ins, stop, rows, b, n, nid, now) ==
    LET s == init_supabase(cfg)
        idle == [ops |-> sidebar(s), bucket |-> b, uuid_n |-> n, rows |-> rows,
                 next_id |-> nid, product_data |-> None, returns |-> <<>>,
                 shown |-> ""]
    IN  IF stop = "start"
        THEN [idle EXCEPT !.ops = <<>>]
        ELSE IF s.stopped
        THEN [idle EXCEPT !.shown = IF stop = "none"
                                    THEN "credentials not configured" ELSE ""]
        ELSE IF required_fields_missing(f)
        THEN [idle EXCEPT !.shown = IF stop = "none"
                                    THEN "fill in name and price" ELSE ""]
        ELSE IF ~s.SUPABASE_CONNECTED
        THEN [idle EXCEPT !.shown = IF stop = "none"
                                    THEN "database not connected" ELSE ""]
        ELSE with_sidebar(s, save_to_database(f, plan, ins, stop, rows, b, n,
                                              nid, now))

\* What the environment may do to the upload calls of a Save that ends at
\* `stop`: a run stopped before the handler has made none; a run stopped
\* during the uploads has made the first k calls, for a k after which the
\* script calls Streamlit, or for a k whose remote call raised and whose
\* file was not rejected (st.error, line 145); every other run has made
\* them all.
SavePlans(f, stop, budget) ==
    CASE stop = "start" -> {<<>>}
      [] stop = "uploading" ->
             UNION {{p \in Plans(k, budget) : st_call_between(upload_calls(f), k)} :
                       k \in 0..num_upload_calls(f)}
      [] stop = "failing" ->
             UNION {{p \in Plans(k, budget) :
                        /\ validate_image(upload_calls(f)[k].file)
                        /\ p[k].storage # "ok"} :
                       k \in 1..num_upload_calls(f)}
      [] OTHER -> Plans(num_upload_calls(f), budget)

SaveClick ==
    /\ saves < MaxSaves
    /\ \E stop \in (IF save_blocked(config, form) THEN StopPoints
                    ELSE {"none", "start", "uploading", "failing", "compiled",
                          "inserted"}) :
         \E plan \in (IF save_blocked(config, form) THEN {<<>>}
                      ELSE SavePlans(form, stop, MaxFaults - faults)) :
           \E ins \in (IF stop \in {"start", "uploading", "failing", "compiled"}
                          \/ save_blocked(config, form)
                       THEN {"ok"}
                       ELSE Outcomes(MaxFaults - faults - Faults(plan))) :
             \E r \in {save_rerun(config, form, plan, ins, stop, products,
                                  bucket, uuid_n, next_id, saves + 1)} :
               /\ log' = r.ops
               /\ bucket' = r.bucket
               /\ uuid_n' = r.uuid_n
               /\ products' = r.rows
               /\ next_id' = r.next_id
               /\ product_data' = r.product_data
               /\ ret' = r.returns
               /\ ui' = Shown(Event("save", 0, <<>>), r.shown, <<>>)
               /\ faults' = IF save_blocked(config, form)
                            THEN faults
                            ELSE faults + Faults(plan) + RaiseCount(ins)
    /\ saves' = saves + 1
    /\ UNCHANGED <<config, form, session_state, call>>

\* Lines 730-739: opening or refreshing the View All Products page.
ViewPage ==
    /\ \E sel \in {"ok", "raise"} :
         LET s == init_supabase(config)
             rows == get_all_products_from_supabase(products, sel)
         IN  IF s.stopped
             THEN log' = <<>> /\ ui' = Shown(Event("view", 0, <<>>), "credentials not configured", <<>>)
             ELSE IF ~s.SUPABASE_CONNECTED
             THEN log' = <<>> /\ ui' = Shown(Event("view", 0, <<>>), "database not connected", <<>>)
             ELSE /\ log' = sidebar(s) \o <<SelectOp>>
                  /\ ui' = Shown(Event("view", 0, <<>>), IF Len(rows) = 0 THEN "no products" ELSE "", rows)
    /\ UNCHANGED <<config, form, products, bucket, uuid_n, next_id,
                   session_state, product_data, saves, faults, call, ret>>

confirm_key(id) == <<"confirm_delete", id>>

\* Line 811: st.session_state.get(f"confirm_delete_{product['id']}", False)
delete_confirmed(id, ss) == confirm_key(id) \in ss

\* Lines 736-739, 809-820: the run of a click on the Delete button of a
\* product the page listed.  The run lists the table again (line 736).  When
\* that select raises, get_all_products_from_supabase returns [] (lines
\* 168-171), the page draws "No products in database yet" (lines 738-739)
\* and no button, and the handler of lines 809-820 does not run: no mark is
\* set and no delete is issued, whether the product was marked or not.
\* Otherwise the rows drawn are those line 736 fetched, before the delete.
\* After a successful delete the run ends in st.rerun() (line 815): the run
\* that call starts is a run of the page of its own (ViewPage), with a
\* listing of its own and without the message of this one; the table is
\* changed before that run starts.  A run that Streamlit stops before it
\* reaches the button ("start", "sidebar", and "listing": at a call of lines
\* 739-808, while the rows are drawn) does not run the handler either.  A run
\* that Streamlit stops at the call drawing its message (170, 183, 739, 813,
\* 817, 820) draws none.
DeleteClick ==
    /\ init_supabase(config).SUPABASE_CONNECTED
    /\ \E i \in 1..Len(products), stop \in StopPoints \cup {"listing"} :
       \E sel \in (IF stop \in {"none", "message"} THEN {"ok", "raise"} ELSE {"ok"}) :
       \E del \in (IF stop \in {"start", "sidebar", "listing"} \/ sel = "raise"
                   THEN {"ok"}
                   ELSE Outcomes(MaxFaults - faults)) :
         LET s == init_supabase(config)
             id == products[i].id
             rows == get_all_products_from_supabase(products, sel)
             d == delete_product_from_supabase(id, del, products)
             listing == sidebar(s) \o <<SelectOp>>
         IN  IF stop \in {"start", "sidebar", "listing"} \/ Len(rows) = 0
             THEN /\ products' = products
                  /\ session_state' = session_state
                  /\ faults' = faults
                  /\ log' = (IF stop = "start" THEN <<>>
                             ELSE IF stop = "sidebar" THEN sidebar(s) ELSE listing)
                  /\ ui' = Shown(Event("delete", id, <<>>),
                                 IF stop = "none" THEN "no products" ELSE "",
                                 IF stop \in {"start", "sidebar"} THEN <<>> ELSE rows)
             ELSE IF delete_confirmed(id, session_state)
             THEN /\ products' = d.rows
                  /\ session_state' = session_state
                  /\ faults' = faults + RaiseCount(del)
                  /\ log' = listing \o <<DeleteOp(id)>>
                  /\ ui' = Shown(Event("delete", id, <<>>),
                                 IF stop = "message" THEN ""
                                 ELSE IF d.ret THEN "deleted" ELSE "failed to delete",
                                 rows)
             ELSE /\ products' = products
                  /\ session_state' = session_state \cup {confirm_key(id)}
                  /\ faults' = faults
                  /\ log' = listing
                  /\ ui' = Shown(Event("delete", id, <<>>),
                                 IF stop = "message" THEN "" ELSE "click delete again",
                                 rows)
    /\ UNCHANGED <<config, form, bucket, uuid_n, next_id, product_data,
                   saves, call, ret>>

Queries == {<<>>, <<"b", "A">>, <<"z">>}

\* Lines 829-856: the Search page with a query typed in.
SearchPage ==
    /\ \E q \in Queries, sel \in {"ok", "raise"} :
         LET s == init_supabase(config)
         IN  IF s.stopped
             THEN log' = <<>> /\ ui' = Shown(Event("search", 0, q), "credentials not configured", <<>>)
             ELSE IF ~s.SUPABASE_CONNECTED
             THEN log' = <<>> /\ ui' = Shown(Event("search", 0, q), "database not connected", <<>>)
             ELSE IF Len(q) = 0
             THEN log' = sidebar(s) /\ ui' = Shown(Event("search", 0, q), "", <<>>)
             ELSE LET found == search_products(q, products, sel)
                  IN  /\ log' = sidebar(s) \o <<SearchOp(q)>>
                      /\ ui' = Shown(Event("search", 0, q),
                                     IF Len(found) = 0 THEN "no products found" ELSE "found",
                                     found)
    /\ UNCHANGED <<config, form, products, bucket, uuid_n, next_id,
                   session_state, product_data, saves, faults, call, ret>>

\* Lines 862-873: the Export Data page.
ExportPage ==
    /\ \E sel \in {"ok", "raise"} :
         LET s == init_supabase(config)
             rows == get_all_products_from_supabase(products, sel)
         IN  IF s.stopped
             THEN log' = <<>> /\ ui' = Shown(Event("export", 0, <<>>), "credentials not configured", <<>>)
             ELSE IF ~s.SUPABASE_CONNECTED
             THEN log' = <<>> /\ ui' = Shown(Event("export", 0, <<>>), "database not connected", <<>>)
             ELSE /\ log' = sidebar(s) \o <<SelectOp>>
                  /\ ui' = Shown(Event("export", 0, <<>>),
                                 IF Len(rows) = 0 THEN "no products to export" ELSE "ready",
                                 rows)
    /\ UNCHANGED <<config, form, products, bucket, uuid_n, next_id,
                   session_state, product_data, saves, faults, call, ret>>

\* Lines 427-437: the Test Database Connection button.
TestConnection ==
    /\ LET s == init_supabase(config)
       IN  IF s.stopped
           THEN log' = <<>> /\ ui' = Shown(Event("test", 0, <<>>), "credentials not configured", <<>>)
           ELSE IF ~s.SUPABASE_CONNECTED
           THEN log' = <<>> /\ ui' = Shown(Event("test", 0, <<>>), "not connected", <<>>)
           ELSE log' = sidebar(s) \o <<CountOp>> /\ ui' = Shown(Event("test", 0, <<>>), "tested", <<>>)
    /\ UNCHANGED <<config, form, products, bucket, uuid_n, next_id,
                   session_state, product_data, saves, faults, call, ret>>

----------------------------------------------------------------------------
\* The inputs the model draws from.

Text_Bat == <<"B", "a", "t">>
Text_Star == <<"S", "t", "a", "r">>
Text_Sku == <<"B", "A", "T", "-", "1">>

Small == File(<<"bat", "png">>, 100 * 1024, "image/png", "small")
Mid == File(<<"hero", "shot", "png">>, 2 * MiB, "image/png", "mid")
Big == File(<<"huge", "png">>, 6 * MiB, "image/png", "big")

Variation(name, img) ==
    [name |-> name, price |-> 100, sku |-> "", stock |-> 0, image |-> img]

BaseForm ==
    [product_type |-> T_SIMPLE,
     product_name |-> Text_Bat,
     sku |-> Text_Sku,
     regular_price |-> 4999,
     sale_price |-> 0,
     stock_status |-> "In Stock",
     stock_quantity |-> 0,
     weight |-> 0,
     category |-> "Bats",
     short_description |-> "",
     full_description |-> "",
     main_image |-> None,
     gallery_images |-> <<>>,
     variations |-> <<>>,
     enable_deep_custom |-> TRUE,
     edition_heading |-> "Reserve Edition",
     edition_subtitle |-> "",
     edition_image |-> None,
     short_edition_desc |-> "",
     grains |-> "6-8 Grains",
     grade |-> "Grade A+",
     grain_description |-> "",
     shapes |-> <<"Round", "">>,
     enable_laser |-> TRUE,
     laser_price |-> 5,
     laser_max_chars |-> 8,
     laser_image |-> None]

\* Name and price present or not, with and without a main image.
FormsRequired ==
    {[BaseForm EXCEPT !.product_name = nm, !.regular_price = p, !.main_image = mi] :
        nm \in {<<>>, Text_Bat}, p \in {0, 4999}, mi \in {None, Some(Small)}}

\* The optional numbers, zero or not.
FormsNumeric ==
    {[BaseForm EXCEPT !.sale_price = sp, !.weight = w, !.stock_quantity = q] :
        sp \in {0, 50}, w \in {0, 2}, q \in {0, 5}}

FormsSimple ==
    {[BaseForm EXCEPT !.main_image = mi] :
        mi \in {Some(Small), Some(Mid), Some(Big)}}
    \cup {[BaseForm EXCEPT !.main_image = mi, !.gallery_images = g] :
            mi \in {None, Some(Small)},
            g \in {<<Small, Mid>>, <<Big, Small>>}}

\* Variations, each with or without an image.
VariationLists ==
    {<<Variation("L", None)>>,
     <<Variation("L", Some(Small))>>,
     <<Variation("L", Some(Small)), Variation("M", None)>>,
     <<Variation("L", Some(Big)), Variation("M", Some(Mid))>>}

FormsVariable ==
    {[BaseForm EXCEPT !.product_type = T_VARIABLE, !.variations = vs] :
        vs \in VariationLists}
    \cup {[BaseForm EXCEPT !.product_type = T_VARIABLE,
                           !.main_image = Some(Small),
                           !.gallery_images = <<Mid>>,
                           !.variations = <<Variation("L", Some(Small))>>]}

\* Edition image, and the laser checkbox with its image.
FormsBat ==
    {[BaseForm EXCEPT !.product_type = T_BAT, !.edition_image = e,
                      !.enable_laser = l[1], !.laser_image = l[2]] :
        e \in {None, Some(Small), Some(Big)},
        l \in {<<FALSE, None>>, <<TRUE, None>>, <<TRUE, Some(Small)>>,
               <<TRUE, Some(Mid)>>}}
    \cup {[BaseForm EXCEPT !.product_type = T_BAT, !.main_image = Some(Small),
                           !.gallery_images = <<Mid>>,
                           !.edition_image = Some(Small),
                           !.laser_image = Some(Small)]}
    \cup {[BaseForm EXCEPT !.product_type = T_BAT, !.main_image = mi,
                           !.enable_deep_custom = FALSE] :
            mi \in {None, Some(Small)}}

Forms == FormsRequired \cup FormsNumeric \cup FormsSimple \cup FormsVariable
         \cup FormsBat

\* Rows the table may hold when the session starts.
StoredRow(name, nid) ==
    server_row(compile_product_data([BaseForm EXCEPT !.product_name = name],
                                    None, <<>>, <<>>, EmptyDict, 0), nid)
InitialTables ==
    {<<StoredRow(Text_Bat, 0)>>, <<StoredRow(Text_Bat, 0), StoredRow(Text_Star, 1)>>}

Configs ==
    {[url |-> u, key |-> k, create_client |-> c] :
        u \in {"", "https://x.supabase.co"}, k \in {"", "anon-key"},
        c \in {"ok", "raise"}}

----------------------------------------------------------------------------
\* The session: any form against an empty table, or the base form against a
\* table that already holds rows.

Init ==
    /\ config \in Configs
    /\ \/ form \in Forms /\ products = <<>>
       \/ form = BaseForm /\ products \in InitialTables
    /\ bucket = {}
    /\ uuid_n = 0
    /\ next_id = Len(products)
    /\ session_state = {}
    /\ log = <<>>
    /\ product_data = None
    /\ saves = 0
    /\ faults = 0
    /\ ui = Shown(Event("start", 0, <<>>), "", <<>>)
    /\ call = None
    /\ ret = <<>>

Next ==
    \/ SaveClick
    \/ ViewPage
    \/ DeleteClick
    \/ SearchPage
    \/ ExportPage
    \/ TestConnection

Spec == Init /\ [][Next]_vars

----------------------------------------------------------------------------
\* upload_image_to_supabase on its own: one call on a drawn file.

TestSizes == {100 * 1024, 1 * MiB, 1 * MiB + 1, 5 * MiB, 5 * MiB + 1, 6 * MiB}
TestTypes == {"image/png", "image/jpeg", "image/jpg", "image/webp",
              "image/gif", "application/pdf"}
TestNames == {<<"a", "png">>, <<"noext">>, <<"a", "b", "webp">>}
TestFiles ==
    {File(nm, sz, ty, "content") : nm \in TestNames, sz \in TestSizes, ty \in TestTypes}
Folders == {"products/main", "products/laser"}

InitUpload ==
    /\ config = [url |-> "https://x.supabase.co", key |-> "anon-key",
                 create_client |-> "ok"]
    /\ form = BaseForm
    /\ products = <<>>
    /\ bucket = {}
    /\ uuid_n = 0
    /\ next_id = 0
    /\ session_state = {}
    /\ log = <<>>
    /\ product_data = None
    /\ saves = 0
    /\ faults = 0
    /\ ui = Shown(Event("start", 0, <<>>), "", <<>>)
    /\ call \in {Some([file |-> f, folder |-> d, env |-> e]) :
                    f \in TestFiles, d \in Folders, e \in Envs}
    /\ ret = <<>>

UploadImage ==
    /\ IsSome(call)
    /\ ret = <<>>
    /\ \E c \in {Val(call)} :
         \E r \in {upload_image_to_supabase(c.file, c.folder, c.env, bucket, uuid_n)} :
           /\ bucket' = r.bucket
           /\ uuid_n' = r.uuid_n
           /\ log' = r.ops
           /\ ret' = <<Returned(c.file, c.folder, r)>>
    /\ ui' = Shown(Event("upload", 0, <<>>), "", <<>>)
    /\ UNCHANGED <<config, form, products, next_id, session_state,
                   product_data, saves, faults, call>>

NextUpload == UploadImage

SpecUpload == InitUpload /\ [][NextUpload]_vars

----------------------------------------------------------------------------
\* Properties of the records the Save handler assembles.

\* The records in sight are the one the last Save click assembled and the
\* rows of the table.

C1_OneOf(rec) ==
    /\ rec.product_type = T_VARIABLE => IsNone(rec.deep_customization)
    /\ rec.product_type = T_BAT => IsNone(rec.variations)
    /\ rec.product_type = T_SIMPLE =>
           IsNone(rec.variations) /\ IsNone(rec.deep_customization)
    /\ ~(IsSome(rec.variations) /\ IsSome(rec.deep_customization))

\* C1: in every record Save assembles, variations and deep_customization are
\* never both non-null: a variable product has no deep_customization, a
\* deep-customization product no variations, a simple product neither.
C1_PayloadsExclusive ==
    /\ IsSome(product_data) => C1_OneOf(Val(product_data))
    /\ \A i \in 1..Len(products) : C1_OneOf(products[i])

\* A deep-customization record was saved with its payload and no variations.
C1_Witness ==
    /\ ui.shown = "saved"
    /\ Len(products) = 1
    /\ products[1].product_type = T_BAT
    /\ IsSome(products[1].deep_customization)
    /\ IsNone(products[1].variations)

C2_Structured(d) ==
    {"edition", "handle_shapes", "laser_engraving"} \subseteq DOMAIN d

C2_Original(rec) ==
    /\ rec.product_type = T_BAT =>
           /\ IsSome(rec.deep_customization)
           /\ C2_Structured(Val(rec.deep_customization))
           /\ IsNone(rec.variations)
    /\ rec.product_type = T_VARIABLE =>
           /\ IsSome(rec.variations)
           /\ Len(Val(rec.variations)) >= 1
           /\ IsNone(rec.deep_customization)

\* C2 as stated: every deep-customization record, the checkbox unchecked
\* included, carries a structured payload with edition, handle_shapes and
\* laser_engraving; every variable record carries at least one variation; the
\* other payload is null.
C2_AlwaysStructured ==
    /\ IsSome(product_data) => C2_Original(Val(product_data))
    /\ \A i \in 1..Len(products) : C2_Original(products[i])

C2_Amended(rec) ==
    /\ rec.product_type = T_BAT =>
           /\ IsSome(rec.deep_customization)
           /\ form.enable_deep_custom =>
                  C2_Structured(Val(rec.deep_customization))
           /\ ~form.enable_deep_custom =>
                  DOMAIN Val(rec.deep_customization) = {}
           /\ IsNone(rec.variations)
    /\ rec.product_type = T_VARIABLE =>
           /\ IsSome(rec.variations)
           /\ Len(Val(rec.variations)) >= 1
           /\ IsNone(rec.deep_customization)

\* C2, amended: a deep-customization record carries the structured payload
\* when 'Enable Deep Customization' is checked and the empty object {} (not
\* null) when it is unchecked; a variable record carries at least one
\* variation; the other payload is null.
C2_StructuredWhenEnabled ==
    /\ IsSome(product_data) => C2_Amended(Val(product_data))
    /\ \A i \in 1..Len(products) : C2_Amended(products[i])

\* A deep-customization record was saved with the checkbox unchecked.
C2_Witness ==
    /\ ui.shown = "saved"
    /\ ~form.enable_deep_custom
    /\ Len(products) = 1
    /\ products[1].product_type = T_BAT
    /\ IsSome(products[1].deep_customization)
    /\ DOMAIN Val(products[1].deep_customization) = {}

----------------------------------------------------------------------------
\* Properties of upload_image_to_supabase, on one direct call.

Uploaded == IsSome(call) /\ Len(ret) = 1
CallFile == Val(call).file
CallEnv == Val(call).env

C3_Rejectable(file) ==
    \/ file.size > 5 * 1024 * 1024
    \/ file.type \notin {"image/png", "image/jpeg", "image/jpg", "image/webp"}

\* C3: the call rejects the image exactly when it is larger than 5 MiB or its
\* declared type is not PNG/JPEG/WEBP; a rejected image yields no descriptor,
\* reaches no PIL call and no call on the bucket, and an image that is not
\* rejected is handed to the bucket's upload.
C3_RejectsExactly ==
    Uploaded =>
        /\ C3_Rejectable(CallFile) =>
               /\ IsNone(ret[1].value)
               /\ ~ret[1].pil_called
               /\ log = <<>>
               /\ bucket = {}
        /\ ~C3_Rejectable(CallFile) =>
               /\ Len(log) >= 1
               /\ log[1].op = "storage.upload"

\* A PNG one byte over 5 MiB was rejected.
C3_Witness ==
    /\ Uploaded
    /\ CallFile.size = 5 * 1024 * 1024 + 1
    /\ CallFile.type = "image/png"
    /\ IsNone(ret[1].value)
    /\ log = <<>>

C4_Validated(file) == ~C3_Rejectable(file)

C4_IsJpeg(op) ==
    /\ op.bytes.encoding = "JPEG85"
    /\ op.bytes.part = "all"
    /\ op.content_type = "image/jpeg"
    /\ op.path.ext = "jpg"

C4_IsOriginal(op, file) ==
    /\ op.bytes.encoding = "original"
    /\ op.bytes.data = file.bytes.data
    /\ op.content_type = file.type
    /\ op.path.ext = file.name[Len(file.name)]

\* C4 as stated: every validated image over 1 MiB reaches the bucket as its
\* JPEG re-encoding, typed image/jpeg under a .jpg path, and one of at most
\* 1 MiB is uploaded unchanged.
C4_AlwaysJpeg ==
    Uploaded /\ C4_Validated(CallFile) =>
        /\ CallFile.size > 1024 * 1024 => C4_IsJpeg(log[1])
        /\ CallFile.size <= 1024 * 1024 =>
               C4_IsOriginal(log[1], CallFile) /\ log[1].bytes.part = "all"

\* C4, amended: a validated image over 1 MiB reaches the bucket as its JPEG
\* re-encoding (image/jpeg, .jpg) unless the re-encoding raises; then the
\* original file is uploaded under its own extension and content type, read
\* from where the failed re-encoding left it. An image of at most 1 MiB is
\* uploaded unchanged.
C4_JpegUnlessPilRaises ==
    Uploaded /\ C4_Validated(CallFile) =>
        /\ CallFile.size > 1024 * 1024 /\ CallEnv.pil = "ok" =>
               C4_IsJpeg(log[1])
        /\ CallFile.size > 1024 * 1024 /\ CallEnv.pil = "raise" =>
               C4_IsOriginal(log[1], CallFile) /\ log[1].bytes.part = "rest"
        /\ CallFile.size <= 1024 * 1024 =>
               C4_IsOriginal(log[1], CallFile) /\ log[1].bytes.part = "all"

\* An image of 1 MiB + 1 byte named a.b.webp was stored as JPEG.
C4_Witness ==
    /\ Uploaded
    /\ CallFile.size = 1024 * 1024 + 1
    /\ CallFile.name = <<"a", "b", "webp">>
    /\ IsSome(ret[1].value)
    /\ Val(ret[1].value).filename = <<"a", "b", "jpg">>
    /\ \E o \in bucket : o.content_type = "image/jpeg" /\ o.path.ext = "jpg"

\* C5 as stated: when the call returns no descriptor because a storage call
\* raised, the bucket holds no object written by that call.
C5_NoObjectOnFailure ==
    Uploaded /\ IsNone(ret[1].value) /\ CallEnv.storage # "ok" => bucket = {}

----------------------------------------------------------------------------
\* Properties of one Save click.

SaveShown == ui.event.kind = "save"
NameOrPriceMissing == Len(form.product_name) = 0 \/ form.regular_price = 0
CredentialsMissing == config.url = "" \/ config.key = ""
SaveRan ==
    /\ SaveShown
    /\ ~NameOrPriceMissing
    /\ ~CredentialsMissing
    /\ config.create_client = "ok"
\* The run reached the end of the handler: it drew its message.  A run that
\* Streamlit stopped on the way draws none.
SaveFinished == SaveRan /\ ui.shown \in {"saved", "failed to save"}
\* The run got as far as line 677: the record was built.
SaveCompiled == SaveRan /\ IsSome(product_data)

\* The images selected in the form that a Save uploads.
VariationImages ==
    IF form.product_type = T_VARIABLE
    THEN {j \in 1..Len(form.variations) : IsSome(form.variations[j].image)}
    ELSE {}
CustomizationImages ==
    IF form.product_type = T_BAT /\ form.enable_deep_custom
    THEN Len(form.edition_image)
         + (IF form.enable_laser THEN Len(form.laser_image) ELSE 0)
    ELSE 0
SelectedImages ==
    Len(form.main_image) + Len(form.gallery_images)
    + Cardinality(VariationImages) + CustomizationImages

ReturnsFor(folder) == SelectSeq(ret, LAMBDA c : c.folder = folder)

\* C6: a failed image never aborts the Save: in every run that Streamlit
\* does not stop on the way, whatever images failed, every selected image is
\* attempted and the insert of the assembled record is still issued, last;
\* in every record built the main / variation / edition / laser field of a
\* failed image is null and every descriptor returned is in the record.
C6_FailureDoesNotAbort ==
    /\ SaveFinished =>
        /\ IsSome(product_data)
        /\ log[Len(log)] = [op |-> "table.insert", record |-> Val(product_data)]
    /\ SaveCompiled =>
        /\ Len(ret) = SelectedImages
        /\ \A i \in 1..Len(ret) :
             /\ ret[i].file.size > 5 * 1024 * 1024 => IsNone(ret[i].value)
             /\ ret[i].folder = "products/main" =>
                    Val(product_data).main_image = ret[i].value
             /\ ret[i].folder = "products/gallery" /\ IsSome(ret[i].value) =>
                    \E j \in 1..Len(Val(product_data).gallery_images) :
                        Val(product_data).gallery_images[j] = Val(ret[i].value)
             /\ ret[i].folder = "products/edition" =>
                    Val(Val(product_data).deep_customization).edition.image
                        = ret[i].value
             /\ ret[i].folder = "products/laser" =>
                    Val(Val(product_data).deep_customization).laser_engraving.image
                        = ret[i].value
        /\ \A j \in VariationImages :
             Val(Val(product_data).variations)[j].image
                 = ReturnsFor("products/variations")
                       [Cardinality({k \in VariationImages : k <= j})].value

\* A 6 MiB PNG was the main image, and the record was saved without it.
C6_Witness ==
    /\ SaveRan
    /\ form.main_image = Some(Big)
    /\ ui.shown = "saved"
    /\ Len(products) = 1
    /\ IsNone(products[1].main_image)

C7_Rank(op) ==
    CASE op.op = "table.select" -> 0
      [] op.op = "table.insert" -> 6
      [] op.op \in {"storage.upload", "storage.get_public_url"} ->
            CASE op.path.folder = "products/main" -> 1
              [] op.path.folder = "products/gallery" -> 2
              [] op.path.folder = "products/variations" -> 3
              [] op.path.folder = "products/edition" -> 4
              [] op.path.folder = "products/laser" -> 5

C7_GalleryUploads ==
    SelectSeq(log, LAMBDA op : op.op = "storage.upload"
                               /\ op.path.folder = "products/gallery")
C7_GalleryAccepted ==
    SelectSeq(form.gallery_images, LAMBDA f : f.size <= 5 * 1024 * 1024)

\* C7: the remote calls of one Save are in order: main image, gallery images
\* in selection order, variation images, edition image, laser image, each
\* upload followed at once by its URL lookup, and one insert after them all:
\* no run issues more than one insert or any call after it, a run issues
\* the insert only after every accepted gallery image was uploaded, and a
\* run that reaches its end issues it.
C7_UploadsThenInsert ==
    SaveRan =>
        /\ \A i, j \in 1..Len(log) : i < j => C7_Rank(log[i]) <= C7_Rank(log[j])
        /\ Cardinality({i \in 1..Len(log) : log[i].op = "table.insert"}) <= 1
        /\ \A i \in 1..Len(log) : log[i].op = "table.insert" => i = Len(log)
        /\ SaveFinished => \E i \in 1..Len(log) : log[i].op = "table.insert"
        /\ (\E i \in 1..Len(log) : log[i].op = "table.insert") =>
               /\ Len(ret) = SelectedImages
               /\ Len(C7_GalleryUploads) = Len(C7_GalleryAccepted)
        /\ \A i \in 1..Len(log) :
             log[i].op = "storage.get_public_url" =>
                 /\ i > 1
                 /\ log[i - 1].op = "storage.upload"
                 /\ log[i - 1].path = log[i].path
        /\ \A i, j \in 1..Len(log) :
             i < j /\ log[i].op = "storage.upload" /\ log[j].op = "storage.upload"
                 => log[i].path.uuid < log[j].path.uuid
        /\ Len(C7_GalleryUploads) <= Len(C7_GalleryAccepted)
        /\ \A i \in 1..Len(C7_GalleryUploads) :
             C7_GalleryUploads[i].bytes.data = C7_GalleryAccepted[i].bytes.data

\* Main, gallery, edition and laser images were uploaded, then the insert.
C7_Witness ==
    /\ SaveRan
    /\ Len(log) = 10
    /\ log[2].path.folder = "products/main"
    /\ log[4].path.folder = "products/gallery"
    /\ log[6].path.folder = "products/edition"
    /\ log[8].path.folder = "products/laser"
    /\ log[10].op = "table.insert"

\* C8: a Save with an empty name or a regular price of 0 issues no upload and
\* no insert, and every row of the table has a name and a price above 0.
C8_RequiredFields ==
    /\ SaveShown /\ NameOrPriceMissing =>
           /\ IsNone(product_data)
           /\ bucket = {}
           /\ \A i \in 1..Len(log) : log[i].op = "table.select"
    /\ \A i \in 1..Len(products) :
           Len(products[i].product_name) > 0 /\ products[i].regular_price > 0

\* Save was clicked with a name, a price of 0 and a main image selected.
C8_Witness ==
    /\ SaveShown
    /\ Len(form.product_name) > 0
    /\ form.regular_price = 0
    /\ IsSome(form.main_image)
    /\ config.create_client = "ok" /\ ~CredentialsMissing
    /\ ui.shown = "fill in name and price"

\* C9: with the store URL or the access key missing no rerun issues any call
\* on the table or the bucket.
C9_NoCallWithoutCredentials ==
    CredentialsMissing => log = <<>> /\ bucket = {} /\ next_id = Len(products)

\* Save was clicked on a complete form while the access key was missing.
C9_Witness ==
    /\ config.key = "" /\ config.url # ""
    /\ SaveShown
    /\ ~NameOrPriceMissing
    /\ log = <<>>

----------------------------------------------------------------------------
\* Properties of the Delete button.

DeleteIssued(l, id) ==
    \E k \in 1..Len(l) : l[k].op = "table.delete" /\ l[k].id = id
AnyDeleteIssued(l) ==
    \E k \in 1..Len(l) : l[k].op = "table.delete"
Pending(id) == <<"confirm_delete", id>> \in session_state

C10_Step ==
    \A id \in 1..next_id :
        /\ DeleteIssued(log', id) =>
               /\ ui'.event.kind = "delete" /\ ui'.event.id = id
               /\ Pending(id)
        /\ ui'.event.kind = "delete" /\ ui'.event.id = id /\ ~Pending(id) =>
               /\ ~AnyDeleteIssued(log')
               /\ session_state' = session_state \cup {<<"confirm_delete", id>>}
               /\ products' = products

\* C10: deletion is a two-step confirm and commit per product: a Delete click
\* on an id that is not marked pending issues no delete, changes no row and
\* marks that id, and no other, pending; a delete for an id is issued only by
\* a Delete click on that id made while that id is marked pending, whatever
\* other id is marked.  The first half fails in the code: when the select of
\* line 736 raises in the run of the click, lines 168-171 return [], lines
\* 738-739 draw no button and the handler of lines 809-820 does not run, so
\* the click marks nothing and the product takes a third click to delete.
C10_TwoStepDelete == [][C10_Step]_vars

----------------------------------------------------------------------------
\* The four table functions on their own (src/app.py 148-198): one call at a
\* time on a table of a few rows, any call after any other.

\* Most rows the table has ever held.
MaxRows == 3

GatewayRecord(name, sku, price) ==
    compile_product_data([BaseForm EXCEPT !.product_name = name, !.sku = sku,
                                          !.regular_price = price],
                         None, <<>>, <<>>, EmptyDict, 0)
GatewayRecords ==
    {GatewayRecord(Text_Bat, Text_Sku, 4999), GatewayRecord(Text_Star, <<>>, 250)}
GatewayTables ==
    {<<>>,
     <<server_row(GatewayRecord(Text_Bat, Text_Sku, 4999), 0),
       server_row(GatewayRecord(Text_Star, <<>>, 250), 1)>>}
GatewayQueries ==
    {<<"b", "A">>, <<"t", "-">>, <<"z">>, <<"_">>, <<"B", "_", "T">>, <<"a", "%", "1">>}

Called(op, arg, env) == Some([op |-> op, arg |-> arg, env |-> env])
Result(value) == <<[value |-> value]>>

InitGateway ==
    /\ config = [url |-> "https://x.supabase.co", key |-> "anon-key",
                 create_client |-> "ok"]
    /\ form = BaseForm
    /\ products \in GatewayTables
    /\ next_id = Len(products)
    /\ bucket = {}
    /\ uuid_n = 0
    /\ session_state = {}
    /\ log = <<>>
    /\ product_data = None
    /\ saves = 0
    /\ faults = 0
    /\ ui = Shown(Event("start", 0, <<>>), "", <<>>)
    /\ call = None
    /\ ret = <<>>

\* save_product_to_supabase(product_data)
Create ==
    /\ next_id < MaxRows
    /\ \E rec \in GatewayRecords, ins \in {"ok", "raise"} :
         \E r \in {save_product_to_supabase(rec, ins, products, next_id)} :
           /\ products' = r.rows
           /\ next_id' = r.next_id
           /\ product_data' = Some(rec)
           /\ log' = <<InsertOp(rec)>>
           /\ call' = Called("create", rec, ins)
           /\ ret' = Result(r.ret)
    /\ UNCHANGED <<config, form, bucket, uuid_n, session_state, saves, faults, ui>>

\* get_all_products_from_supabase()
ListAll ==
    /\ \E sel \in {"ok", "raise"} :
         /\ log' = <<SelectOp>>
         /\ call' = Called("listAll", <<>>, sel)
         /\ ret' = Result(get_all_products_from_supabase(products, sel))
    /\ UNCHANGED <<config, form, products, next_id, bucket, uuid_n,
                   session_state, product_data, saves, faults, ui>>

\* delete_product_from_supabase(product_id), for any id
Delete ==
    /\ \E id \in 1..MaxRows, del \in {"ok", "raise"} :
         \E r \in {delete_product_from_supabase(id, del, products)} :
           /\ products' = r.rows
           /\ log' = <<DeleteOp(id)>>
           /\ call' = Called("delete", id, del)
           /\ ret' = Result(r.ret)
    /\ UNCHANGED <<config, form, next_id, bucket, uuid_n, session_state,
                   product_data, saves, faults, ui>>

\* search_products(query), for a query that is not empty (line 837)
Search ==
    /\ \E q \in GatewayQueries, sel \in {"ok", "raise"} :
         /\ log' = <<SearchOp(q)>>
         /\ call' = Called("search", q, sel)
         /\ ret' = Result(search_products(q, products, sel))
    /\ UNCHANGED <<config, form, products, next_id, bucket, uuid_n,
                   session_state, product_data, saves, faults, ui>>

NextGateway ==
    \/ Create
    \/ ListAll
    \/ Delete
    \/ Search

SpecGateway == InitGateway /\ [][NextGateway]_vars

Ids(rows) == {rows[i].id : i \in 1..Len(rows)}
WasCalled(op) == IsSome(call) /\ Val(call).op = op
WillBeCalled(op) == IsSome(call') /\ Val(call').op = op

C11_Step ==
    WillBeCalled("delete") =>
        /\ ret'[1].value = (Val(call').env = "ok")
        /\ Val(call').env = "ok" =>
               /\ Val(call').arg \notin Ids(products')
               /\ \A i \in 1..Len(products) :
                      products[i].id # Val(call').arg =>
                          \E j \in 1..Len(products') : products'[j] = products[i]
               /\ Ids(products') \subseteq Ids(products)
        /\ Val(call').env = "raise" => products' = products

\* C11: delete_product_from_supabase returns True whenever the store call
\* does not raise, whether or not a row had the id, and leaves every other
\* row as it was; it returns False only when the store call raises, and then
\* the table is as it was.
C11_DeleteReportsSuccess == [][C11_Step]_vars

\* Id 3 was never in the table of rows 1 and 2; deleting it returned True and
\* both rows are still there.
C11_Witness ==
    /\ WasCalled("delete")
    /\ Val(call).arg = 3 /\ Val(call).env = "ok"
    /\ next_id = 2
    /\ ret[1].value = TRUE
    /\ Ids(products) = {1, 2}
    /\ log = <<DeleteOp(3)>>

Listed == ret[1].value

\* C12: when the select does not raise, get_all_products_from_supabase
\* returns the empty sequence for an empty table and otherwise exactly the
\* rows of the table, each once, newest first, after any creates and deletes.
C12_ListAllNewestFirst ==
    WasCalled("listAll") /\ Val(call).env = "ok" =>
        /\ products = <<>> => Listed = <<>>
        /\ Len(Listed) = Len(products)
        /\ {Listed[i] : i \in 1..Len(Listed)}
               = {products[i] : i \in 1..Len(products)}
        /\ \A i, j \in 1..Len(Listed) :
               i < j => Listed[i].created_at > Listed[j].created_at

\* Row 2 was deleted and a third row created; the list is row 3, then row 1.
C12_Witness ==
    /\ WasCalled("listAll") /\ Val(call).env = "ok"
    /\ Len(Listed) = 2
    /\ Listed[1].id = 3
    /\ Listed[2].id = 1

Env == Val(call').env
Arg == Val(call').arg
Returns == ret'[1].value

C13_Step ==
    /\ products = <<>> /\ WillBeCalled("create") /\ Env = "ok" =>
           /\ IsSome(Returns)
           /\ Val(Returns).id >= 1
           /\ Val(Returns).created_at >= 1
           /\ Val(Returns).product_name = Arg.product_name
           /\ Val(Returns).regular_price = Arg.regular_price
           /\ products' = <<Val(Returns)>>
    /\ Len(products) = 1 /\ WillBeCalled("listAll") /\ Env = "ok" =>
           Returns = <<products[1]>>
    /\ Len(products) = 1 /\ WillBeCalled("delete") /\ Env = "ok"
       /\ Arg = products[1].id =>
           products' = <<>>
    /\ products = <<>> /\ WillBeCalled("listAll") /\ Env = "ok" =>
           Returns = <<>>

\* C13: on an empty table, saving one simple record without images returns
\* the row with the id the server gave it; a list then returns just that row,
\* with the name and price written; after a delete of that id a list returns
\* the empty sequence (each call taken when the store does not raise).
C13_CreateListDelete == [][C13_Step]_vars

\* The table was empty, one row was created and deleted, and the list that
\* followed returned nothing.
C13_Witness ==
    /\ WasCalled("listAll") /\ Val(call).env = "ok"
    /\ IsSome(product_data)
    /\ next_id = 1
    /\ products = <<>>
    /\ Listed = <<>>

\* C14 as stated: a call whose store operation raises returns a value that
\* no successful call of the same function returns (a failed list or search
\* does not return the empty sequence of a successful one), and no call
\* issues more than one store operation.
C14_FailureDistinguishable ==
    IsSome(call) =>
        /\ Len(log) = 1
        /\ Val(call).env = "raise" =>
               /\ Val(call).op = "create" => IsNone(ret[1].value)
               /\ Val(call).op = "delete" => ret[1].value = FALSE
               /\ Val(call).op = "listAll" => ret[1].value # <<>>
               /\ Val(call).op = "search" => ret[1].value # <<>>

C15_Contains(t, q) ==
    \E i \in 0..(Len(t) - Len(q)) :
        \A k \in 1..Len(q) : lower(t[i + k]) = lower(q[k])

C15_Matches(row, q) ==
    C15_Contains(row.product_name, q) \/ C15_Contains(row.sku, q)

\* C15 as stated: search_products(q), q not empty, returns exactly the rows
\* whose product name or SKU contains q as a substring, case ignored, and the
\* empty sequence when there is none.
C15_SearchBySubstring ==
    WasCalled("search") /\ Val(call).env = "ok" =>
        /\ Len(Val(call).arg) > 0
        /\ {Listed[i] : i \in 1..Len(Listed)}
               = {products[i] : i \in {j \in 1..Len(products) :
                                          C15_Matches(products[j], Val(call).arg)}}
        /\ (\A j \in 1..Len(products) : ~C15_Matches(products[j], Val(call).arg))
               => Listed = <<>>

----------------------------------------------------------------------------
\* The Export Data page (src/app.py 862-1033).

\* JSON documents.
JNull == [t |-> "null"]
JNum(n) == [t |-> "number", v |-> n]
JStr(x) == [t |-> "string", v |-> x]
JBool(b) == [t |-> "bool", v |-> b]
JArr(items) == [t |-> "array", items |-> items]
JObj(members) == [t |-> "object", members |-> members]

\* json.dumps of the values a row holds: None is null, a dict an object, a
\* list an array in the same order.
dumps_number_NoneAsZero(o) == IF IsNone(o) THEN JNum(0) ELSE JNum(Val(o))
dumps_number(o) == IF IsNone(o) THEN JNull ELSE JNum(Val(o))
dumps_descriptor(d) ==
    JObj([filename |-> JStr(d.filename), path |-> JStr(d.path), url |-> JStr(d.url)])
dumps_image(o) == IF IsNone(o) THEN JNull ELSE dumps_descriptor(Val(o))
dumps_gallery(g) == JArr([i \in 1..Len(g) |-> dumps_descriptor(g[i])])
dumps_variation(v) ==
    JObj([name |-> JStr(v.name), price |-> JNum(v.price), sku |-> JStr(v.sku),
          stock |-> JNum(v.stock), image |-> dumps_image(v.image)])
dumps_variations(o) ==
    IF IsNone(o) THEN JNull
    ELSE JArr([i \in 1..Len(Val(o)) |-> dumps_variation(Val(o)[i])])
dumps_edition(e) ==
    JObj([heading |-> JStr(e.heading), subtitle |-> JStr(e.subtitle),
          short_description |-> JStr(e.short_description),
          grains |-> JStr(e.grains), grade |-> JStr(e.grade),
          grain_description |-> JStr(e.grain_description),
          image |-> dumps_image(e.image)])
dumps_laser(l) ==
    JObj([enabled |-> JBool(l.enabled), price |-> JNum(l.price),
          max_chars |-> JNum(l.max_chars), image |-> dumps_image(l.image)])
dumps_customization(o) ==
    IF IsNone(o) THEN JNull
    ELSE IF DOMAIN Val(o) = {} THEN JObj(EmptyDict)
    ELSE JObj([enabled |-> JBool(Val(o).enabled),
               edition |-> dumps_edition(Val(o).edition),
               handle_shapes |->
                   JArr([i \in 1..Len(Val(o).handle_shapes) |->
                            JObj([label |-> JStr(Val(o).handle_shapes[i].label)])]),
               laser_engraving |-> dumps_laser(Val(o).laser_engraving)])
dumps_row(r) ==
    JObj([id |-> JNum(r.id),
          created_at |-> JStr(r.created_at),
          product_name |-> JStr(r.product_name),
          product_type |-> JStr(r.product_type),
          sku |-> JStr(r.sku),
          regular_price |-> JNum(r.regular_price),
          sale_price |-> dumps_number(r.sale_price),
          stock_status |-> JStr(r.stock_status),
          stock_quantity |-> JNum(r.stock_quantity),
          weight |-> dumps_number(r.weight),
          category |-> JStr(r.category),
          short_description |-> JStr(r.short_description),
          full_description |-> JStr(r.full_description),
          main_image |-> dumps_image(r.main_image),
          gallery_images |-> dumps_gallery(r.gallery_images),
          variations |-> dumps_variations(r.variations),
          deep_customization |-> dumps_customization(r.deep_customization),
          product_data |->
              JObj([timestamp |-> JStr(r.product_data.timestamp),
                    complete_data |-> JStr(r.product_data.complete_data)])])

\* Line 877: json.dumps(products, indent=2, default=str). Every value of a
\* listed row came out of JSON, so default=str is never called.
json_dumps(rows) == JArr([i \in 1..Len(rows) |-> dumps_row(rows[i])])

\* json.loads of an exported document, value by value.
loads_number(j) == IF j.t = "null" THEN None ELSE Some(j.v)
loads_descriptor(j) ==
    [filename |-> j.members.filename.v, path |-> j.members.path.v,
     url |-> j.members.url.v]
loads_image(j) == IF j.t = "null" THEN None ELSE Some(loads_descriptor(j))
loads_gallery(j) == [i \in 1..Len(j.items) |-> loads_descriptor(j.items[i])]
loads_variation(j) ==
    [name |-> j.members.name.v, price |-> j.members.price.v,
     sku |-> j.members.sku.v, stock |-> j.members.stock.v,
     image |-> loads_image(j.members.image)]
loads_variations(j) ==
    IF j.t = "null" THEN None
    ELSE Some([i \in 1..Len(j.items) |-> loads_variation(j.items[i])])
loads_edition(j) ==
    [heading |-> j.members.heading.v, subtitle |-> j.members.subtitle.v,
     short_description |-> j.members.short_description.v,
     grains |-> j.members.grains.v, grade |-> j.members.grade.v,
     grain_description |-> j.members.grain_description.v,
     image |-> loads_image(j.members.image)]
loads_laser(j) ==
    [enabled |-> j.members.enabled.v, price |-> j.members.price.v,
     max_chars |-> j.members.max_chars.v, image |-> loads_image(j.members.image)]
loads_customization(j) ==
    IF j.t = "null" THEN None
    ELSE IF DOMAIN j.members = {} THEN Some(EmptyDict)
    ELSE Some([enabled |-> j.members.enabled.v,
               edition |-> loads_edition(j.members.edition),
               handle_shapes |->
                   [i \in 1..Len(j.members.handle_shapes.items) |->
                       [label |-> j.members.handle_shapes.items[i].members.label.v]],
               laser_engraving |-> loads_laser(j.members.laser_engraving)])
loads_row(j) ==
    [id |-> j.members.id.v,
     created_at |-> j.members.created_at.v,
     product_name |-> j.members.product_name.v,
     product_type |-> j.members.product_type.v,
     sku |-> j.members.sku.v,
     regular_price |-> j.members.regular_price.v,
     sale_price |-> loads_number(j.members.sale_price),
     stock_status |-> j.members.stock_status.v,
     stock_quantity |-> j.members.stock_quantity.v,
     weight |-> loads_number(j.members.weight),
     category |-> j.members.category.v,
     short_description |-> j.members.short_description.v,
     full_description |-> j.members.full_description.v,
     main_image |-> loads_image(j.members.main_image),
     gallery_images |-> loads_gallery(j.members.gallery_images),
     variations |-> loads_variations(j.members.variations),
     deep_customization |-> loads_customization(j.members.deep_customization),
     product_data |-> [timestamp |-> j.members.product_data.members.timestamp.v,
                       complete_data |->
                           j.members.product_data.members.complete_data.v]]
json_loads(doc) == [i \in 1..Len(doc.items) |-> loads_row(doc.items[i])]

\* Line 905: created_at[:10], the day of the timestamp; two creation instants
\* of the model fall on one day.
date_of(ts) == ts \div 2

\* Lines 893-906: basic_data, one dict for each product.
basic_row(r) ==
    [product_id |-> r.id, product_name |-> r.product_name,
     type |-> r.product_type, sku |-> r.sku,
     regular_price |-> r.regular_price, sale_price |-> r.sale_price,
     stock_status |-> r.stock_status, stock_quantity |-> r.stock_quantity,
     category |-> r.category, weight |-> r.weight,
     created_at |-> date_of(r.created_at)]
basic_data(rows) == [i \in 1..Len(rows) |-> basic_row(rows[i])]

\* Line 916
bat_products(rows) == SelectSeq(rows, LAMBDA r : r.product_type = T_BAT)

\* Lines 920-931: the row of one bat product with a customization to show.
bat_row(r) ==
    [product_name |-> r.product_name,
     sku |-> r.sku,
     edition_heading |-> Val(r.deep_customization).edition.heading,
     grains |-> Val(r.deep_customization).edition.grains,
     grade |-> Val(r.deep_customization).edition.grade,
     laser_engraving |->
         IF Val(r.deep_customization).laser_engraving.enabled THEN "Yes" ELSE "No",
     laser_price |-> Val(r.deep_customization).laser_engraving.price]

\* Line 920: `if deep_custom:` is false for None and for {}.
truthy(deep_custom) == IsSome(deep_custom) /\ DOMAIN Val(deep_custom) # {}

\* Lines 917-931: bat_data
RECURSIVE bat_data(_)
bat_data(bats) ==
    IF bats = <<>> THEN <<>>
    ELSE (IF truthy(Head(bats).deep_customization)
          THEN <<bat_row(Head(bats))>> ELSE <<>>)
         \o bat_data(Tail(bats))

Sheet(name, rows) == [sheet_name |-> name, rows |-> rows]

\* Lines 911-936: the sheets written to the workbook.
excel_sheets(rows) ==
    <<Sheet("Products", basic_data(rows))>>
    \o (IF bat_products(rows) # <<>> /\ bat_data(bat_products(rows)) # <<>>
        THEN <<Sheet("Bat Customization", bat_data(bat_products(rows)))>>
        ELSE <<>>)

\* Lines 974-979 and 983-987: counts by product type and by stock status.
type_counts(rows) ==
    [t \in {rows[i].product_type : i \in 1..Len(rows)} |->
        Cardinality({i \in 1..Len(rows) : rows[i].product_type = t})]
stock_counts(rows) ==
    [t \in {rows[i].stock_status : i \in 1..Len(rows)} |->
        Cardinality({i \in 1..Len(rows) : rows[i].stock_status = t})]

\* The names the script has bound when a rerun on the Export page reaches
\* line 998. Every rerun starts from a fresh namespace; total_value is bound
\* at line 771 alone, on the View All Products page.
export_globals(rows) ==
    [products |-> rows,
     json_data |-> json_dumps(rows),
     sheets |-> excel_sheets(rows),
     type_counts |-> type_counts(rows),
     stock_counts |-> stock_counts(rows)]

dumps_counts(counts) == JObj([t \in DOMAIN counts |-> JNum(counts[t])])

\* Lines 998-1014: the Create Full Backup handler run in namespace g.
create_full_backup(g, now) ==
    IF "total_value" \in DOMAIN g
    THEN [raised |-> "",
          backup_json |->
              Some(JObj([backup_info |->
                             JObj([created_at |-> JStr(now),
                                   total_products |-> JNum(Len(g.products)),
                                   app_version |-> JStr("v2.0"),
                                   database |-> JStr("Supabase")]),
                         products |-> json_dumps(g.products),
                         statistics |->
                             JObj([by_type |-> dumps_counts(g.type_counts),
                                   by_stock |-> dumps_counts(g.stock_counts),
                                   total_value |-> JNum(g.total_value)])]))]
    ELSE [raised |-> "NameError", backup_json |-> None]

\* Most rows of an exported table.
MaxExported == 3

Descriptor ==
    Val(upload_image_to_supabase(Small, "products/main",
                                 [pil |-> "ok", storage |-> "ok"], {}, 0).ret)
FormBatOn == [BaseForm EXCEPT !.product_type = T_BAT, !.product_name = Text_Star]
FormBatOff == [FormBatOn EXCEPT !.enable_deep_custom = FALSE]
FormVariable ==
    [BaseForm EXCEPT !.product_type = T_VARIABLE, !.sale_price = 50,
                     !.weight = 2, !.stock_status = "Out of Stock",
                     !.regular_price = 250]
ExportKinds == {"simple", "bat", "bat_off", "variable"}
ExportRecord(kind) ==
    CASE kind = "simple" -> GatewayRecord(Text_Bat, Text_Sku, 4999)
      [] kind = "bat" ->
            compile_product_data(FormBatOn, None, <<>>, <<>>,
                                 deep_custom_data(FormBatOn), 0)
      [] kind = "bat_off" ->
            compile_product_data(FormBatOff, Some(Descriptor), <<>>, <<>>,
                                 deep_custom_data(FormBatOff), 0)
      [] kind = "variable" ->
            compile_product_data(FormVariable, Some(Descriptor), <<Descriptor>>,
                                 <<Variation("L", Some(Descriptor)),
                                   Variation("M", None)>>,
                                 EmptyDict, 0)
ExportTables ==
    UNION {{[i \in 1..n |-> server_row(ExportRecord(ks[i]), i - 1)] :
               ks \in [1..n -> ExportKinds]} : n \in 0..MaxExported}

InitExport ==
    /\ config = [url |-> "https://x.supabase.co", key |-> "anon-key",
                 create_client |-> "ok"]
    /\ form = BaseForm
    /\ products \in ExportTables
    /\ next_id = Len(products)
    /\ bucket = {}
    /\ uuid_n = 0
    /\ session_state = {}
    /\ log = <<>>
    /\ product_data = None
    /\ saves = 0
    /\ faults = 0
    /\ ui = Shown(Event("start", 0, <<>>), "", <<>>)
    /\ call = None
    /\ ret = <<>>

\* Lines 862-990: a rerun on the Export page: the listing, then the JSON
\* text, the workbook and the counts when there is a row to export.
ExportFiles ==
    /\ \E sel \in {"ok", "raise"} :
         \E rows \in {get_all_products_from_supabase(products, sel)} :
           /\ log' = sidebar(init_supabase(config)) \o <<SelectOp>>
           /\ call' = Called("export", <<>>, sel)
           /\ ui' = Shown(Event("export", 0, <<>>),
                          IF Len(rows) = 0 THEN "no products to export" ELSE "ready",
                          rows)
           /\ ret' = IF Len(rows) = 0 THEN <<>>
                     ELSE Result(export_globals(rows))
    /\ UNCHANGED <<config, form, products, next_id, bucket, uuid_n,
                   session_state, product_data, saves, faults>>

\* Lines 998-1024: a click on Create Full Backup: the rerun lists the table
\* and, with a row to export, runs the handler.
CreateFullBackup ==
    /\ \E sel \in {"ok", "raise"} :
         \E rows \in {get_all_products_from_supabase(products, sel)} :
           /\ log' = sidebar(init_supabase(config)) \o <<SelectOp>>
           /\ call' = Called("backup", <<>>, sel)
           /\ ui' = Shown(Event("backup", 0, <<>>),
                          IF Len(rows) = 0 THEN "no products to export"
                          ELSE IF create_full_backup(export_globals(rows), 0).raised # ""
                          THEN "exception"
                          ELSE "backup ready",
                          rows)
           /\ ret' = IF Len(rows) = 0 THEN <<>>
                     ELSE Result(create_full_backup(export_globals(rows), 0))
    /\ UNCHANGED <<config, form, products, next_id, bucket, uuid_n,
                   session_state, product_data, saves, faults>>

NextExport ==
    \/ ExportFiles
    \/ CreateFullBackup

SpecExport == InitExport /\ [][NextExport]_vars

RECURSIVE C16_TotalValue(_)
C16_TotalValue(rows) ==
    IF rows = <<>> THEN 0
    ELSE Head(rows).regular_price + C16_TotalValue(Tail(rows))

C16_Count(rows, field, x) ==
    Cardinality({i \in 1..Len(rows) : rows[i][field] = x})

\* C16 as stated: Create Full Backup on a list with a row produces a JSON
\* object with the keys backup_info, products and statistics, holding the
\* number of rows, the rows, the counts by type and by stock status and the
\* sum of the regular prices.
C16_BackupProduced ==
    WasCalled("backup") /\ Len(ui.rows) > 0 =>
        /\ ret[1].value.raised = ""
        /\ IsSome(ret[1].value.backup_json)
        /\ DOMAIN Val(ret[1].value.backup_json).members
               = {"backup_info", "products", "statistics"}
        /\ Val(ret[1].value.backup_json).members.backup_info.members.total_products.v
               = Len(ui.rows)
        /\ json_loads(Val(ret[1].value.backup_json).members.products) = ui.rows
        /\ \A t \in ProductTypes :
               C16_Count(ui.rows, "product_type", t) > 0 =>
                   Val(ret[1].value.backup_json).members.statistics.members
                       .by_type.members[t].v = C16_Count(ui.rows, "product_type", t)
        /\ \A t \in {"In Stock", "Out of Stock", "On Backorder"} :
               C16_Count(ui.rows, "stock_status", t) > 0 =>
                   Val(ret[1].value.backup_json).members.statistics.members
                       .by_stock.members[t].v = C16_Count(ui.rows, "stock_status", t)
        /\ Val(ret[1].value.backup_json).members.statistics.members.total_value.v
               = C16_TotalValue(ui.rows)

Exported == WasCalled("export") /\ ret # <<>>
C17_Second ==
    SelectSeq(ret[1].value.sheets, LAMBDA sh : sh.sheet_name = "Bat Customization")
C17_Bats == SelectSeq(ui.rows, LAMBDA r : r.product_type = T_BAT)
\* C17: the workbook has the sheet 'Bat Customization' exactly when some
\* exported record is of the deep-customization type, and the sheet then has
\* one row for each record of that type and no other row.  Lines 921 and 934
\* skip a record whose payload is empty, as every bat saved with the checkbox
\* unchecked is ({} of line 673): an export of such records alone has no
\* second sheet, against the comment of line 915.
C17_SheetIffBatRecord ==
    Exported =>
        /\ Len(C17_Second) <= 1
        /\ Len(C17_Second) = 1 <=> C17_Bats # <<>>
        /\ Len(C17_Second) = 1 =>
               /\ Len(C17_Second[1].rows) = Len(C17_Bats)
               /\ \A k \in 1..Len(C17_Bats) :
                      /\ C17_Second[1].rows[k].product_name = C17_Bats[k].product_name
                      /\ C17_Second[1].rows[k].sku = C17_Bats[k].sku

\* C18: parsing the exported JSON text gives back the list that was
\* exported: as many records, in the same order, each with the same field
\* values, null payloads, nested variations, customization and image
\* descriptors included.
C18_JsonRoundTrip ==
    Exported =>
        /\ Len(json_loads(ret[1].value.json_data)) = Len(ui.rows)
        /\ \A i \in 1..Len(ui.rows) :
               json_loads(ret[1].value.json_data)[i] = ui.rows[i]

\* The list exported held a variable product with a variation image and a
\* variation without one, a bat with its customization and a bat with {}.
C18_Witness ==
    /\ Exported
    /\ Len(ui.rows) = 3
    /\ ui.rows[1].product_type = T_VARIABLE
    /\ IsNone(Val(ui.rows[1].variations)[2].image)
    /\ IsNone(ui.rows[1].deep_customization)
    /\ ui.rows[2].deep_customization = Some(deep_custom_data(FormBatOn))
    /\ ui.rows[3].deep_customization = Some(EmptyDict)
    /\ ret[1].value.json_data.items[1].members.deep_customization = JNull
    /\ json_loads(ret[1].value.json_data) = ui.rows

----------------------------------------------------------------------------
\* Further properties of one Save click.

C19_GalleryReturns == ReturnsFor("products/gallery")
C19_GalleryStored ==
    SelectSeq(C19_GalleryReturns, LAMBDA c : IsSome(c.value))

\* C19: the gallery of the saved record is the selected gallery files whose
\* upload succeeded, in the order selected, a failed one dropped; the
\* variations of the record are the variations of the form, as many and in
\* the same order, one whose image failed in its place with a null image.
C19_OrderPreserved ==
    SaveCompiled =>
        /\ Len(C19_GalleryReturns) = Len(form.gallery_images)
        /\ \A k \in 1..Len(C19_GalleryReturns) :
               C19_GalleryReturns[k].file = form.gallery_images[k]
        /\ Len(Val(product_data).gallery_images) = Len(C19_GalleryStored)
        /\ \A k \in 1..Len(C19_GalleryStored) :
               Val(product_data).gallery_images[k] = Val(C19_GalleryStored[k].value)
        /\ form.product_type = T_VARIABLE =>
               /\ Len(Val(Val(product_data).variations)) = Len(form.variations)
               /\ \A j \in 1..Len(form.variations) :
                      /\ Val(Val(product_data).variations)[j].name
                             = form.variations[j].name
                      /\ Val(Val(product_data).variations)[j].price
                             = form.variations[j].price
                      /\ IsNone(form.variations[j].image) =>
                             IsNone(Val(Val(product_data).variations)[j].image)
                      /\ IsSome(form.variations[j].image)
                         /\ Val(form.variations[j].image).size > 5 * 1024 * 1024 =>
                             IsNone(Val(Val(product_data).variations)[j].image)

\* Of the gallery files huge.png (6 MiB) and bat.png the first was rejected:
\* the saved gallery holds bat.png alone.
C19_Witness ==
    /\ SaveRan
    /\ ui.shown = "saved"
    /\ form.gallery_images = <<Big, Small>>
    /\ Len(products) = 1
    /\ Len(products[1].gallery_images) = 1
    /\ products[1].gallery_images[1].filename = Small.name

\* C20: a sale price or weight of 0 is stored as null, never as the number
\* 0, and one that is not 0 as that number; regular_price and stock_quantity
\* are stored as numbers, a stock quantity of 0 as 0.
C20_ZeroStoredAsNull ==
    /\ SaveCompiled =>
           /\ form.sale_price = 0 => IsNone(Val(product_data).sale_price)
           /\ form.sale_price # 0 =>
                  Val(product_data).sale_price = Some(form.sale_price)
           /\ form.weight = 0 => IsNone(Val(product_data).weight)
           /\ form.weight # 0 => Val(product_data).weight = Some(form.weight)
           /\ Val(product_data).regular_price \in Nat
           /\ Val(product_data).regular_price = form.regular_price
           /\ Val(product_data).stock_quantity \in Nat
           /\ Val(product_data).stock_quantity = form.stock_quantity
    /\ \A i \in 1..Len(products) :
           /\ products[i].sale_price # Some(0)
           /\ products[i].weight # Some(0)

\* A product with sale price 0, weight 2 and stock quantity 0 was saved.
C20_Witness ==
    /\ SaveRan
    /\ ui.shown = "saved"
    /\ form.sale_price = 0 /\ form.weight = 2 /\ form.stock_quantity = 0
    /\ Len(products) = 1
    /\ IsNone(products[1].sale_price)
    /\ products[1].weight = Some(2)
    /\ products[1].stock_quantity = 0

----------------------------------------------------------------------------
\* What a Save and a delete leave in the bucket.

C21_ImageAt(image, path) == IsSome(image) /\ Val(image).path = path

C21_References(row, path) ==
    \/ C21_ImageAt(row.main_image, path)
    \/ \E k \in 1..Len(row.gallery_images) : row.gallery_images[k].path = path
    \/ /\ IsSome(row.variations)
       /\ \E k \in 1..Len(Val(row.variations)) :
              C21_ImageAt(Val(row.variations)[k].image, path)
    \/ /\ IsSome(row.deep_customization)
       /\ DOMAIN Val(row.deep_customization) # {}
       /\ \/ C21_ImageAt(Val(row.deep_customization).edition.image, path)
          \/ C21_ImageAt(Val(row.deep_customization).laser_engraving.image, path)

C21_Step ==
    /\ bucket \subseteq bucket'
    /\ ui'.event.kind = "save" =>
           \A k \in 1..Len(log') :
               log'[k].op = "storage.get_public_url" =>
                   \E o \in bucket' : o.path = log'[k].path
    /\ ui'.event.kind = "save" /\ ui'.shown = "failed to save" =>
           /\ products' = products
           /\ \A o \in bucket' \ bucket :
                  \A i \in 1..Len(products') : ~C21_References(products'[i], o.path)
    /\ AnyDeleteIssued(log') => bucket' = bucket

\* C21: no step removes an object from the bucket: every object a Save wrote
\* stays when a later upload of that Save fails and when its insert fails;
\* after a failed insert the table is as it was and no row refers to the
\* objects just written; a delete of a record leaves the bucket as it was.
C21_NoRollback == [][C21_Step]_vars

\* The insert of a Save failed after its images were uploaded: the objects
\* are in the bucket and the table is empty.
C21_Witness ==
    /\ ui.event.kind = "save"
    /\ ui.shown = "failed to save"
    /\ Cardinality(bucket) >= 2
    /\ products = <<>>
    /\ \E k \in 1..Len(log) : log[k].op = "storage.upload"

C22_Step ==
    /\ session_state \subseteq session_state'
    /\ \A id \in 1..next_id :
           Pending(id) /\ ui'.event.kind = "delete" /\ ui'.event.id = id =>
               /\ DeleteIssued(log', id)
               /\ session_state' = session_state

\* C22: a pending mark, once set, is never cleared by a rerun of any page, by
\* any other action or by a failed delete, and so a Delete click on a product
\* that is marked issues the store delete at once, with no fresh
\* confirmation.  The mark is indeed never cleared, but the second half
\* fails in the code: when the select of line 736 raises in the run of the
\* click, lines 168-171 return [], lines 738-739 draw no button and the
\* handler of lines 809-820 does not run, so the click on the marked product
\* issues no delete.
C22_MarkNeverCleared == [][C22_Step]_vars

====
